---- MODULE Spec2Model ----
(***************************************************************************)
(* A model of mailfetcher.py: the MailFetcher class (construction,         *)
(* connect, fetch, disconnect), its link extraction and its download       *)
(* pipeline, together with the parts of the environment the code acts on:  *)
(* the module-level `defaults` dictionary, the IMAP connection objects,    *)
(* the server-side mailbox, the process working directory and the file     *)
(* system.                                                                 *)
(***************************************************************************)
EXTENDS Integers, Sequences, FiniteSets, TLC

VARIABLES
    defaults,    \* the module-level dict `defaults` (every instance's self.config aliases it)
    instances,   \* the MailFetcher objects constructed so far
    inbox,       \* server side: the messages of the mailbox, each with its \Seen flag
    cwd,         \* the process working directory (absolute, a sequence of components)
    dirs,        \* file system: the directories that exist (absolute paths)
    files,       \* file system: absolute path -> content of the regular files
    pending,     \* the list of links a caller is about to hand to download_archives
    last,        \* the most recent call: what it was, what it did, how it ended
    ncalls       \* number of calls made so far

vars == <<defaults, instances, inbox, cwd, dirs, files, pending, last, ncalls>>

---------------------------------------------------------------------------
(* Bounds of the model *)

\* longest list of links handed to download_archives / found in one message
MaxLinks == 3
\* most messages in the mailbox
MaxMsgs == 2
\* most MailFetcher objects constructed in one run
MaxInstances == 2
\* most calls (constructions, fetches, disconnects) in one run
MaxCalls == 3

---------------------------------------------------------------------------
(* Paths.  A path string is a record: absolute or relative, and its         *)
(* components.  The OS resolves a relative path against the working         *)
(* directory at the time of the call.                                       *)

Path(isAbs, parts) == [abs |-> isAbs, parts |-> parts]

\* the path the OS acts on for path string p when the working directory is wd
AbsPath(wd, p) == IF p.abs THEN p.parts ELSE wd \o p.parts

\* os.path.join(p, name) for a name without separators
Join(p, name) == Path(p.abs, p.parts \o <<name>>)

\* a bare file name used as a path
RelName(name) == Path(FALSE, <<name>>)

\* a directory and all its ancestors (os.makedirs creates every missing level)
Prefixes(path) == { SubSeq(path, 1, n) : n \in 1..Len(path) }

\* the working directory the process is started in
StartDir == <<"home">>

\* the two shapes of outdir a caller can configure
OutDefault == Path(TRUE, <<"tmp", "zipfiles">>)
OutRelative == Path(FALSE, <<"out">>)

---------------------------------------------------------------------------
(* Configuration dictionaries *)

\* the module-level default configuration as written in the source
Defaults ==
    [mailbox |-> "inbox", autostart |-> FALSE, unzip |-> TRUE,
     keep_archive |-> TRUE, outdir |-> OutDefault]

\* dict.update(): the keys of arg overwrite or extend d
Update(d, arg) ==
    [k \in (DOMAIN d) \cup (DOMAIN arg) |-> IF k \in DOMAIN arg THEN arg[k] ELSE d[k]]

\* dict.get(k, None) is None
Missing(d, k) == k \notin DOMAIN d

\* an optional value: <<>> (key not supplied) or <<v>>
Opt(S) == {<<>>} \cup { <<v>> : v \in S }

\* the dict a caller passes, built from optional values for each key
MkArg(s, u, p, a, z, k, o) ==
    LET given == [server |-> s, user |-> u, pass |-> p, autostart |-> a,
                  unzip |-> z, keep_archive |-> k, outdir |-> o]
    IN  [key \in { x \in DOMAIN given : Len(given[x]) = 1 } |-> given[key][1]]

---------------------------------------------------------------------------
(* Links and what the transfer service does with them *)

Marker == "wetransfer.com/downloads"

\* what happens when a link is resolved and downloaded
\*   zip          the file arrives and is a valid zip archive
\*   zip_ro       as zip, but the local file cannot be deleted afterwards
\*   notzip       the file arrives and is not a zip archive
\*   nofile       the download returns and the expected file is not there
\*   resolve_err  resolving the link raises
\*   dl_err       the download raises
Serves == {"zip", "zip_ro", "notzip", "nofile", "resolve_err", "dl_err"}

Names == {"a", "b"}

NoiseLink == [site |-> "example.com", name |-> "x", serves |-> "nofile"]

TransferLinks == [site : {Marker}, name : Names, serves : Serves]

Links == {NoiseLink} \cup TransferLinks

\* all sequences over S of length at most n
RECURSIVE SeqsUpTo(_, _)
SeqsUpTo(S, n) ==
    IF n = 0 THEN {<<>>}
    ELSE LET shorter == SeqsUpTo(S, n - 1)
         IN  shorter \cup { Append(q, x) : q \in { r \in shorter : Len(r) = n - 1 }, x \in S }

LinkLists == SeqsUpTo(Links, MaxLinks)

\* "wetransfer.com/downloads" in link
HasMarker(link) == link.site = Marker

---------------------------------------------------------------------------
(* Events: what a call did, in order *)

Ev(op, idx, path) == [op |-> op, idx |-> idx, path |-> path]

\* the running state of a call: environment, events so far, exception raised
Running(wd, ds, fs, box) ==
    [cwd |-> wd, dirs |-> ds, files |-> fs, inbox |-> box, events |-> <<>>, raised |-> "none"]

Emit(st, e) == [st EXCEPT !.events = Append(@, e)]

Raise(st, exc) == [st EXCEPT !.raised = exc]

WriteFile(fs, path, content) ==
    [p \in (DOMAIN fs) \cup {path} |-> IF p = path THEN content ELSE fs[p]]

RemoveFile(fs, path) == [p \in (DOMAIN fs) \ {path} |-> fs[p]]

NoFiles == [p \in {} |-> "data"]

---------------------------------------------------------------------------
(* The download pipeline: download_archives and unzip_archive *)

\* _unquoted_filename(link): resolves the link through the transfer backend
\* and derives the file name; a backend failure is raised to the caller
unquoted_filename(link, i, st) ==
    LET s1 == Emit(st, Ev("resolve", i, <<>>))
    IN  IF link.serves = "resolve_err" THEN Raise(s1, "ResolveError") ELSE s1

\* transferwee.download(link): writes the file under its resolved name into
\* the working directory, or raises, or returns without the expected file
transferwee_download(link, i, st) ==
    LET written == AbsPath(st.cwd, RelName(link.name))
    IN  CASE link.serves = "dl_err" ->
               Raise(Emit(st, Ev("download", i, <<>>)), "DownloadError")
          [] link.serves = "nofile" ->
               Emit(st, Ev("download", i, <<>>))
          [] OTHER ->
               Emit([st EXCEPT !.files = WriteFile(@, written,
                        IF link.serves = "notzip" THEN "data" ELSE link.serves)],
                    Ev("download", i, written))

\* the entries of the archive called file_name, as paths relative to the
\* directory it is extracted into
ZipEntry(file_name) == <<"entries", file_name>>

\* an os.unlink(file_name) without try/except
UnlinkUnguarded(file_name, i, st) ==
    LET archive == AbsPath(st.cwd, RelName(file_name))
    IN  IF archive \in DOMAIN st.files /\ st.files[archive] # "zip_ro"
        THEN Emit([st EXCEPT !.files = RemoveFile(@, archive)], Ev("unlink", i, archive))
        ELSE Raise(Emit(st, Ev("unlink", i, archive)), "PermissionError")

\* os.unlink(file_name) inside try/except: a failure is logged, not raised
UnlinkArchive(file_name, i, st) ==
    LET archive == AbsPath(st.cwd, RelName(file_name))
    IN  IF archive \in DOMAIN st.files /\ st.files[archive] # "zip_ro"
        THEN Emit([st EXCEPT !.files = RemoveFile(@, archive)], Ev("unlink", i, archive))
        ELSE Emit(st, Ev("unlink_failed", i, archive))

\* unzip_archive(file_name)
unzip_archive(cfg, file_name, i, st) ==
    LET archive == AbsPath(st.cwd, RelName(file_name))
        target == AbsPath(st.cwd, cfg.outdir)
        entry == target \o ZipEntry(file_name)
        s1 == Emit(st, Ev("zip_open", i, archive))
    IN  IF archive \notin DOMAIN st.files THEN Raise(s1, "FileNotFoundError")
        ELSE IF st.files[archive] \notin {"zip", "zip_ro"} THEN Raise(s1, "BadZipFile")
        ELSE LET s2 == Emit([s1 EXCEPT
                                !.dirs = @ \cup Prefixes(SubSeq(entry, 1, Len(entry) - 1)),
                                !.files = WriteFile(@, entry, "data")],
                            Ev("extractall", i, target))
             IN  IF ~cfg.keep_archive THEN UnlinkArchive(file_name, i, s2) ELSE s2

\* the else branch of the existence check: print("Failed!")
ReportFailed(i, target, st) == Emit(st, Ev("print_failed", i, target))

\* a check whose result does not decide whether the file is extracted
ExtractUnverified(cfg, file_name, i, st) ==
    LET target == AbsPath(st.cwd, Join(cfg.outdir, file_name))
        s1 == Emit(st, Ev(IF target \in DOMAIN st.files THEN "isfile_yes" ELSE "isfile_no",
                          i, target))
    IN  IF cfg.unzip THEN unzip_archive(cfg, file_name, i, s1) ELSE s1

\* lines 189-196: the existence check on full_path and what follows it
VerifyDownload(cfg, file_name, i, st) ==
    LET full_path == Join(cfg.outdir, file_name)
        target == AbsPath(st.cwd, full_path)
    IN  IF target \in DOMAIN st.files
        THEN LET s2 == Emit(Emit(st, Ev("isfile_yes", i, target)), Ev("print_size", i, target))
             IN  IF cfg.unzip THEN unzip_archive(cfg, file_name, i, s2) ELSE s2
        ELSE ReportFailed(i, target, Emit(st, Ev("isfile_no", i, target)))

\* lines 184-196: what is done with a link that passed the filter
HandleLink(cfg, link, i, st) ==
    LET r == unquoted_filename(link, i, st)
    IN  IF r.raised # "none" THEN r
        ELSE LET d == transferwee_download(link, i, r)
             IN  IF d.raised # "none" THEN d
                 ELSE VerifyDownload(cfg, link.name, i, d)

\* a loop body that does not filter the links
ProcessEveryLink(cfg, link, i, st) == HandleLink(cfg, link, i, st)

\* the body of the for loop for the link at position i
ProcessLink(cfg, link, i, st) ==
    IF ~HasMarker(link) THEN st ELSE HandleLink(cfg, link, i, st)

\* the for loop: an exception raised in the body ends it
RECURSIVE LinkLoop(_, _, _, _)
LinkLoop(cfg, links, i, st) ==
    IF i > Len(links) \/ st.raised # "none" THEN st
    ELSE LinkLoop(cfg, links, i + 1, ProcessLink(cfg, links[i], i, st))

\* lines 178-180: os.makedirs(outdir, exist_ok=True); os.chdir(outdir)
EnterOutdir(cfg, st) ==
    LET out == AbsPath(st.cwd, cfg.outdir)
        s1 == Emit([st EXCEPT !.dirs = @ \cup Prefixes(out)], Ev("makedirs", 0, out))
    IN  Emit([s1 EXCEPT !.cwd = out], Ev("chdir", 0, out))

\* download_archives(links)
download_archives(cfg, links, st) ==
    LinkLoop(cfg, links, 1, EnterOutdir(cfg, Emit(st, Ev("download_archives", Len(links), <<>>))))

---------------------------------------------------------------------------
(* Calls and their records *)

\* the record of a call: the operation, the object it was invoked on (0 when
\* a construction handed no object to the caller), the list of links or the
\* dict passed (arg is <<>> when none was), what it did and the exception it
\* ended with
Call(op, inst, input, arg, st) ==
    [op |-> op, inst |-> inst, input |-> input, arg |-> arg,
     events |-> st.events, raised |-> st.raised]

NoCall ==
    [op |-> "none", inst |-> 0, input |-> <<>>, arg |-> <<>>, events |-> <<>>,
     raised |-> "none"]

\* a MailFetcher object
Instance(connected, conn, supplied) ==
    [is_connected |-> connected, conn |-> conn, supplied |-> supplied]

\* a caller invokes download_archives(links) on instance i
CallDownloadArchives(i) ==
    /\ pending # <<>>
    /\ i \in DOMAIN instances
    /\ LET links == pending[1]
           r == download_archives(defaults, links, Running(cwd, dirs, files, inbox))
       IN  /\ cwd' = r.cwd
           /\ dirs' = r.dirs
           /\ files' = r.files
           /\ last' = Call("download_archives", i, links, <<>>, r)
    /\ pending' = <<>>
    /\ ncalls' = ncalls + 1
    /\ UNCHANGED <<defaults, instances, inbox>>

---------------------------------------------------------------------------
(* The pipeline on its own: an unconnected MailFetcher built from a         *)
(* configuration without credentials, and one call of download_archives     *)
(* on a list of links.                                                      *)

PipelineArgs ==
    { MkArg(<<>>, <<>>, <<>>, <<>>, z, k, o) :
        z \in Opt(BOOLEAN), k \in Opt(BOOLEAN), o \in Opt({OutDefault, OutRelative}) }

InitPipeline ==
    /\ \E arg \in PipelineArgs :
         /\ defaults = Update(Defaults, arg)
         /\ instances = <<Instance(FALSE, "none", arg)>>
    /\ inbox = <<>>
    /\ cwd = StartDir
    /\ dirs = Prefixes(StartDir)
    /\ files = NoFiles
    /\ pending \in { <<l>> : l \in LinkLists }
    /\ last = NoCall
    /\ ncalls = 0

NextPipeline == CallDownloadArchives(1)

SpecPipeline == InitPipeline /\ [][NextPipeline]_vars

---------------------------------------------------------------------------
(* Mail messages and link extraction: get_wetransfer_links *)

\* an HTML body as the parser sees it: the texts of the spans of class
\* download_link_link, and the anchors of that class, each with or without href
HtmlBody(spans, anchors) == [spans |-> spans, anchors |-> anchors]

\* one part of a multi-part message, in walk() order
Part(ctype, attachment, payload) ==
    [ctype |-> ctype, attachment |-> attachment, payload |-> payload]

\* a message; payload is <<>> where get_payload(decode=True) returns None
SinglePart(payload) == [multipart |-> FALSE, parts |-> <<>>, payload |-> payload]
Multipart(parts) == [multipart |-> TRUE, parts |-> parts, payload |-> <<>>]

\* the sender's template: every link once as span text, once as anchor href
TemplateBody(links) == HtmlBody(links, [i \in DOMAIN links |-> <<links[i]>>])

\* the set of elements of a sequence
Range(q) == { q[i] : i \in DOMAIN q }

\* every order in which list(set) can enumerate the set S
RECURSIVE Enumerations(_)
Enumerations(S) ==
    IF S = {} THEN {<<>>}
    ELSE UNION { { <<x>> \o q : q \in Enumerations(S \ {x}) } : x \in S }

\* lines 145-152: the body bytes scanned.  found = FALSE is the case where
\* the name `body` was never bound.
SelectBody(message) ==
    IF message.multipart
    THEN LET html == { i \in DOMAIN message.parts : message.parts[i].ctype = "text/html" }
         IN  IF html = {} THEN [found |-> FALSE, body |-> <<>>]
             ELSE LET first == CHOOSE i \in html : \A j \in html : i <= j
                  IN  [found |-> TRUE, body |-> message.parts[first].payload]
    ELSE [found |-> TRUE, body |-> message.payload]

\* a scan that leaves out the loop over the anchors
ScrapeSpansOnly(body) == Range(body.spans)

\* lines 161-166: the set of link candidates of a body
ScrapeLinks(body) ==
    Range(body.spans) \cup { a[1] : a \in { b \in Range(body.anchors) : b # <<>> } }

\* get_wetransfer_links(message): the exception raised, if any, and
\* otherwise every list it can return
get_wetransfer_links(message) ==
    LET sel == SelectBody(message)
    IN  IF ~sel.found THEN [raised |-> "UnboundLocalError", unparsed |-> FALSE, lists |-> {}]
        ELSE IF sel.body = <<>> THEN [raised |-> "none", unparsed |-> TRUE, lists |-> {<<>>}]
        ELSE [raised |-> "none", unparsed |-> FALSE,
              lists |-> Enumerations(ScrapeLinks(sel.body[1]))]

---------------------------------------------------------------------------
(* The IMAP connection and the server-side mailbox *)

\* the server accepts this login
LoginAccepted(user, pass) == user = "john" /\ pass = "right"

\* the TLS connection to this server can be opened
Reachable(server) == server = "good"

\* imaplib's table of the states in which a command is legal
Legal(command, connState) ==
    CASE command = "LOGIN" -> connState = "NONAUTH"
      [] command = "SELECT" -> connState \in {"AUTH", "SELECTED"}
      [] command \in {"SEARCH", "FETCH", "CLOSE"} -> connState = "SELECTED"
      [] OTHER -> FALSE

\* a message in the mailbox
Mail(message) == [msg |-> message, seen |-> FALSE]

\* SEARCH UNSEEN: the identifiers of the unread messages, ascending
RECURSIVE UnseenFrom(_, _)
UnseenFrom(box, n) ==
    IF n > Len(box) THEN <<>>
    ELSE (IF box[n].seen THEN <<>> ELSE <<n>>) \o UnseenFrom(box, n + 1)

Unseen(box) == UnseenFrom(box, 1)

\* FETCH id (RFC822) on a mailbox selected read-write sets the \Seen flag
MarkSeen(box, id) == [box EXCEPT ![id].seen = TRUE]

---------------------------------------------------------------------------
(* connect, fetch, disconnect *)

\* connect(): result is "true", "false" or "raise"; conn is the state of the
\* IMAP4_SSL object stored in self.mailbox ("none": the attribute was not set)
connect(cfg) ==
    IF Missing(cfg, "server") \/ Missing(cfg, "user") \/ Missing(cfg, "pass")
    THEN [result |-> "false", conn |-> "none", events |-> <<>>, raised |-> "none"]
    ELSE IF ~Reachable(cfg.server)
    THEN [result |-> "raise", conn |-> "none", events |-> <<Ev("open", 0, <<>>)>>,
          raised |-> "OSError"]
    ELSE IF ~LoginAccepted(cfg.user, cfg.pass)
    THEN [result |-> "false", conn |-> "NONAUTH",
          events |-> <<Ev("open", 0, <<>>), Ev("login", 0, <<>>), Ev("log_login_failed", 0, <<>>)>>,
          raised |-> "none"]
    ELSE [result |-> "true", conn |-> "AUTH",
          events |-> <<Ev("open", 0, <<>>), Ev("login", 0, <<>>), Ev("log_logged_in", 0, <<>>)>>,
          raised |-> "none"]

\* lines 235-238: one round of the loop over the unread messages; the results
\* differ in the order in which the links of the message were listed
ProcessMessage(cfg, id, st) ==
    LET s1 == Emit([st EXCEPT !.inbox = MarkSeen(@, id)], Ev("fetch", id, <<>>))
        g == get_wetransfer_links(st.inbox[id].msg)
    IN  IF g.raised # "none" THEN { Raise(s1, g.raised) }
        ELSE { download_archives(cfg, links,
                   Emit(s1, Ev(IF g.unparsed THEN "log_unable_to_parse" ELSE "log_found",
                               Len(links), <<>>))) : links \in g.lists }

\* the for loop over the identifiers returned by the search
RECURSIVE MessageLoop(_, _, _, _)
MessageLoop(cfg, ids, k, st) ==
    IF k > Len(ids) \/ st.raised # "none" THEN {st}
    ELSE UNION { MessageLoop(cfg, ids, k + 1, s) : s \in ProcessMessage(cfg, ids[k], st) }

\* a fetch() without its guard
NotConnectedIgnored(inst) == FALSE /\ inst.is_connected

\* lines 224-226: the guard of fetch()
NotConnected(inst) == ~inst.is_connected

\* fetch() on the object inst: every way it can end, each with the state of
\* the connection afterwards
fetch(cfg, inst, st) ==
    IF NotConnected(inst)
    THEN { [conn |-> inst.conn, st |-> Emit(st, Ev("print_not_connected", 0, <<>>))] }
    ELSE IF inst.conn = "none"
    THEN { [conn |-> inst.conn, st |-> Raise(st, "AttributeError")] }
    ELSE IF ~Legal("SELECT", inst.conn)
    THEN { [conn |-> inst.conn, st |-> Raise(Emit(st, Ev("select", 0, <<>>)), "IMAP4.error")] }
    ELSE LET s1 == Emit(Emit(st, Ev("select", 0, <<>>)), Ev("search", 0, <<>>))
         IN  { [conn |-> "SELECTED", st |-> s] : s \in MessageLoop(cfg, Unseen(st.inbox), 1, s1) }

\* the guard of disconnect()
WantsClose(inst) == inst.is_connected

\* disconnect() on the object inst
disconnect(inst) ==
    IF ~WantsClose(inst)
    THEN [inst |-> inst, events |-> <<>>, raised |-> "none"]
    ELSE IF ~Legal("CLOSE", inst.conn)
    THEN [inst |-> [inst EXCEPT !.conn = "AUTH"], events |-> <<Ev("close", 0, <<>>)>>,
          raised |-> "IMAP4.error"]
    ELSE [inst |-> [inst EXCEPT !.conn = "AUTH"],
          events |-> <<Ev("close", 0, <<>>), Ev("log_disconnected", 0, <<>>)>>,
          raised |-> "none"]

---------------------------------------------------------------------------
(* The operations a caller can invoke *)

\* MailFetcher(arg) with a dict: the update of the shared defaults stays
\* whatever happens next; the object reaches the caller only if neither
\* connect() nor the automatic fetch() raises
Construct(arg) ==
    /\ Len(instances) < MaxInstances
    /\ ncalls < MaxCalls
    /\ LET cfg == Update(defaults, arg)
           c == connect(cfg)
           new == Instance(c.result = "true", c.conn, arg)
           st0 == [Running(cwd, dirs, files, inbox) EXCEPT !.events = c.events]
       IN  /\ defaults' = cfg
           /\ IF c.result = "raise"
              THEN /\ last' = Call("construct", 0, <<>>, <<arg>>, c)
                   /\ UNCHANGED <<instances, inbox, cwd, dirs, files>>
              ELSE IF ~cfg.autostart
              THEN /\ instances' = Append(instances, new)
                   /\ last' = Call("construct", Len(instances) + 1, <<>>, <<arg>>, st0)
                   /\ UNCHANGED <<inbox, cwd, dirs, files>>
              ELSE \E f \in fetch(cfg, new, st0) :
                   /\ instances' = IF f.st.raised = "none"
                                   THEN Append(instances, [new EXCEPT !.conn = f.conn])
                                   ELSE instances
                   /\ last' = Call("construct",
                                   IF f.st.raised = "none" THEN Len(instances) + 1 ELSE 0,
                                   <<>>, <<arg>>, f.st)
                   /\ inbox' = f.st.inbox
                   /\ cwd' = f.st.cwd
                   /\ dirs' = f.st.dirs
                   /\ files' = f.st.files
    /\ ncalls' = ncalls + 1
    /\ UNCHANGED pending

\* MailFetcher() without an argument: defaults.update(None) raises
ConstructNoArg ==
    /\ Len(instances) < MaxInstances
    /\ ncalls < MaxCalls
    /\ last' = [NoCall EXCEPT !.op = "construct", !.raised = "TypeError"]
    /\ ncalls' = ncalls + 1
    /\ UNCHANGED <<defaults, instances, inbox, cwd, dirs, files, pending>>

\* instances[i].fetch()
Fetch(i) ==
    /\ i \in DOMAIN instances
    /\ ncalls < MaxCalls
    /\ \E f \in fetch(defaults, instances[i], Running(cwd, dirs, files, inbox)) :
         /\ instances' = [instances EXCEPT ![i].conn = f.conn]
         /\ last' = Call("fetch", i, <<>>, <<>>, f.st)
         /\ inbox' = f.st.inbox
         /\ cwd' = f.st.cwd
         /\ dirs' = f.st.dirs
         /\ files' = f.st.files
    /\ ncalls' = ncalls + 1
    /\ UNCHANGED <<defaults, pending>>

\* instances[i].disconnect()
Disconnect(i) ==
    /\ i \in DOMAIN instances
    /\ ncalls < MaxCalls
    /\ LET d == disconnect(instances[i])
       IN  /\ instances' = [instances EXCEPT ![i] = d.inst]
           /\ last' = Call("disconnect", i, <<>>, <<>>, d)
    /\ ncalls' = ncalls + 1
    /\ UNCHANGED <<defaults, inbox, cwd, dirs, files, pending>>

\* a new message is delivered to the mailbox
Arrive(message) ==
    /\ Len(inbox) < MaxMsgs
    /\ inbox' = Append(inbox, Mail(message))
    /\ last' = [NoCall EXCEPT !.op = "arrive"]
    /\ UNCHANGED <<defaults, instances, cwd, dirs, files, pending, ncalls>>

---------------------------------------------------------------------------
(* The session life cycle: any sequence of constructions, fetches and       *)
(* disconnects, over every combination of credentials a caller can supply.  *)

TransferLink(name, serves) == [site |-> Marker, name |-> name, serves |-> serves]

\* a notification with one link to a valid archive
ZipMail == SinglePart(<<TemplateBody(<<TransferLink("a", "zip")>>)>>)

ConnectArgs ==
    { MkArg(s, u, p, a, <<>>, <<>>, <<>>) :
        s \in Opt({"good", "down"}), u \in Opt({"john"}),
        p \in Opt({"right", "wrong"}), a \in Opt({TRUE}) }

Init ==
    /\ defaults = Defaults
    /\ instances = <<>>
    /\ inbox \in { <<>>, <<Mail(ZipMail)>> }
    /\ cwd = StartDir
    /\ dirs = Prefixes(StartDir)
    /\ files = NoFiles
    /\ pending = <<>>
    /\ last = NoCall
    /\ ncalls = 0

Next ==
    \/ \E arg \in ConnectArgs : Construct(arg)
    \/ ConstructNoArg
    \/ \E i \in 1..MaxInstances : Fetch(i)
    \/ \E i \in 1..MaxInstances : Disconnect(i)
    \/ Arrive(ZipMail)

Spec == Init /\ [][Next]_vars

---------------------------------------------------------------------------
(* Draining the mailbox: connected sessions over every small mailbox.       *)

\* the messages that can be in the mailbox
FetchMails ==
    { SinglePart(<<TemplateBody(<<l>>)>>) :
        l \in {NoiseLink, TransferLink("a", "zip"), TransferLink("a", "notzip"),
               TransferLink("a", "nofile"), TransferLink("a", "dl_err"),
               TransferLink("a", "resolve_err")} }
    \cup { SinglePart(<<TemplateBody(<<TransferLink("a", "zip"), TransferLink("b", "zip")>>)>>),
           SinglePart(<<>>),
           Multipart(<<Part("text/plain", FALSE, <<>>)>>),
           Multipart(<<Part("text/plain", FALSE, <<>>),
                       Part("text/html", FALSE, <<TemplateBody(<<TransferLink("b", "zip")>>)>>)>>) }

FetchArgs ==
    { MkArg(<<"good">>, <<"john">>, <<"right">>, a, z, <<>>, <<>>) :
        a \in Opt({TRUE}), z \in Opt({FALSE}) }

InitFetch ==
    /\ defaults = Defaults
    /\ instances = <<>>
    /\ inbox \in { [i \in DOMAIN q |-> Mail(q[i])] : q \in SeqsUpTo(FetchMails, MaxMsgs) }
    /\ cwd = StartDir
    /\ dirs = Prefixes(StartDir)
    /\ files = NoFiles
    /\ pending = <<>>
    /\ last = NoCall
    /\ ncalls = 0

NextFetch ==
    \/ \E arg \in FetchArgs : Construct(arg)
    \/ \E i \in 1..MaxInstances : Fetch(i)
    \/ \E i \in 1..MaxInstances : Disconnect(i)
    \/ \E m \in FetchMails : Arrive(m)

SpecFetch == InitFetch /\ [][NextFetch]_vars

---------------------------------------------------------------------------
(* Reading the record of a call *)

\* the call did `op` for the link (or message) numbered i
Occurs(call, op, i) ==
    \E n \in DOMAIN call.events : call.events[n].op = op /\ call.events[n].idx = i

\* the call did `op` at all
Did(call, op) == \E n \in DOMAIN call.events : call.events[n].op = op

\* the exception that ended the call was raised while handling link i
RaisedAt(call, i) ==
    /\ call.raised # "none"
    /\ call.events # <<>>
    /\ call.events[Len(call.events)].idx = i

\* everything download_archives can do to the file system or print per link
LinkOps ==
    {"resolve", "download", "isfile_yes", "isfile_no", "print_size", "print_failed",
     "zip_open", "extractall", "unlink", "unlink_failed"}

\* the file-system interactions that precede the loop
DirOps == {"makedirs", "chdir"}

\* processing of link j of the call was started
Started(call, j) == HasMarker(call.input[j]) => Occurs(call, "resolve", j)

---------------------------------------------------------------------------
(* Claims about the download pipeline (checked under SpecPipeline) *)

\* C1: in download_archives, whenever a marker link at position i was
\* downloaded and its expected file is absent at the existence check, failure
\* is reported for it, handling it raises nothing, and every later link of
\* the list is still processed in the same call.
C1_MissingFileNeverStopsLaterLinks ==
    last.op = "download_archives" =>
        \A i \in DOMAIN last.input :
            (HasMarker(last.input[i]) /\ Occurs(last, "isfile_no", i)) =>
                /\ Occurs(last, "print_failed", i)
                /\ ~RaisedAt(last, i)
                /\ \A j \in DOMAIN last.input : j > i => Started(last, j)

\* C1, the step on its own: the missing-file branch never ends the loop.
\* When the existence check at position i fails, failure is reported, nothing
\* is raised while handling link i, and the next link of the list is taken up.
C1_MissingFileItselfContinues ==
    last.op = "download_archives" =>
        \A i \in DOMAIN last.input :
            (HasMarker(last.input[i]) /\ Occurs(last, "isfile_no", i)) =>
                /\ Occurs(last, "print_failed", i)
                /\ ~RaisedAt(last, i)
                /\ (i + 1 \in DOMAIN last.input => Started(last, i + 1))

\* C2: with unzip enabled, when extraction of the file of link i fails, the
\* call does not end there: it raises nothing and goes on with the remaining
\* links.
C2_ExtractionFailureContained ==
    last.op = "download_archives" =>
        \A i \in DOMAIN last.input :
            (Occurs(last, "zip_open", i) /\ ~Occurs(last, "extractall", i)) =>
                /\ last.raised = "none"
                /\ \A j \in DOMAIN last.input : j > i => Started(last, j)

\* C10 as stated: for a list without any marker link, download_archives does
\* not touch the file system at all (no directory creation, no chdir, no
\* download, no existence check) and records nothing.
C10_NoFileSystemInteraction ==
    (last.op = "download_archives" /\ \A i \in DOMAIN last.input : ~HasMarker(last.input[i])) =>
        /\ \A n \in DOMAIN last.events : last.events[n].op \notin LinkOps \cup DirOps
        /\ cwd = StartDir
        /\ dirs = Prefixes(StartDir)

\* C10 amended: for a list without any marker link, the only file-system
\* interaction of download_archives is the creation of the output directory
\* and the change of directory into it, which precede the loop: it performs
\* no resolution, download, existence check, extraction or deletion, writes
\* no file and reports no result for those links.
C10_OnlyOutdirIsEntered ==
    (last.op = "download_archives" /\ \A i \in DOMAIN last.input : ~HasMarker(last.input[i])) =>
        /\ \A n \in DOMAIN last.events : last.events[n].op \notin LinkOps
        /\ Did(last, "makedirs") /\ Did(last, "chdir")
        /\ cwd = AbsPath(StartDir, defaults.outdir)
        /\ dirs = Prefixes(StartDir) \cup Prefixes(cwd)
        /\ files = NoFiles

\* a call on a non-empty list of links that all lack the marker has returned
C10_Witness ==
    /\ last.op = "download_archives"
    /\ last.input # <<>>
    /\ \A i \in DOMAIN last.input : ~HasMarker(last.input[i])
    /\ cwd # StartDir

---------------------------------------------------------------------------
(* Claims about fetch() over a mailbox (checked under SpecFetch) *)

\* the mail operations of a drain cycle
MailOps == {"select", "search", "fetch"}

\* what the pipeline does beyond entering the output directory
WorkOps == LinkOps \cup DirOps \cup {"download_archives"}

\* C3: no failure while processing a message or a link propagates out of
\* fetch(), and every message that was unread at the search is fetched in
\* the same call (so none is left unread when the call ends).
C3_FetchRaisesNothingAndDrains ==
    (last.op = "fetch" /\ Did(last, "search")) =>
        /\ last.raised = "none"
        /\ \A id \in DOMAIN inbox : inbox[id].seen

\* C9: a fetch() directly after a fetch() of the same session, with no mail
\* arriving in between, performs no download.
C9_SecondFetchDownloadsNothing ==
    [][(last.op = "fetch" /\ last'.op = "fetch" /\ last'.inst = last.inst
        /\ ncalls' = ncalls + 1)
          => ~Did(last', "download")]_vars

---------------------------------------------------------------------------
(* Claims about the session life cycle (checked under Spec) *)

\* the object the last call was invoked on, or handed to the caller
Self == instances[last.inst]

\* the dict the last construction was given lacks a credential
LacksCredential(arg) == \E k \in {"server", "user", "pass"} : Missing(arg, k)

\* connect() on configuration cfg meets one of the three connection-time
\* failures: missing credentials, server unreachable, login rejected
ConnectionFailure(cfg) ==
    IF Missing(cfg, "server") \/ Missing(cfg, "user") \/ Missing(cfg, "pass") THEN TRUE
    ELSE ~Reachable(cfg.server) \/ ~LoginAccepted(cfg.user, cfg.pass)

\* C4: while is_connected is false, fetch() is a no-op, whether a caller
\* invokes it or the constructor does: no select, search or message fetch,
\* no download or extraction, nothing raised, nothing but the error line.
C4_FetchWhileDisconnectedIsNoOp ==
    /\ (last.op = "fetch" /\ ~Self.is_connected) =>
           /\ last.raised = "none"
           /\ last.events = <<Ev("print_not_connected", 0, <<>>)>>
    /\ (last.op = "construct" /\ last.inst # 0 /\ ~Self.is_connected) =>
           /\ last.raised = "none"
           /\ \A n \in DOMAIN last.events : last.events[n].op \notin MailOps \cup WorkOps

\* fetch() was called on an object whose login was rejected, with unread
\* mail waiting in the mailbox
C4_Witness ==
    /\ last.op = "fetch"
    /\ ~Self.is_connected
    /\ Self.conn = "NONAUTH"
    /\ Unseen(inbox) # <<>>

\* C5: a construction whose argument lacks server, user or pass (or that is
\* given no argument) opens no mail connection, raises nothing, and yields
\* an object that is not connected.
C5_MissingCredentialsStayDisconnected ==
    (last.op = "construct" /\ (last.arg = <<>> \/ LacksCredential(last.arg[1]))) =>
        /\ ~Did(last, "open")
        /\ last.raised = "none"
        /\ last.inst # 0
        /\ ~Self.is_connected

\* C5, for a dict argument only: the same, leaving aside the construction
\* without an argument.
C5_MissingCredentialsInDict ==
    (last.op = "construct" /\ last.arg # <<>> /\ LacksCredential(last.arg[1])) =>
        /\ ~Did(last, "open")
        /\ last.raised = "none"
        /\ last.inst # 0
        /\ ~Self.is_connected

\* C6: when connect() meets a connection-time failure (missing credentials,
\* server unreachable, login rejected), nothing is raised to the caller of
\* the constructor and the object is not connected.
C6_ConnectionFailureRaisesNothing ==
    (last.op = "construct" /\ last.arg # <<>> /\ ConnectionFailure(defaults)) =>
        /\ last.raised = "none"
        /\ last.inst # 0
        /\ ~Self.is_connected

\* C7: after a disconnect() that closed the mailbox of a connected session,
\* is_connected is false and a fetch() that follows performs no select,
\* search or message fetch.
C7_FetchAfterDisconnectIsNoOp ==
    [][(last.op = "disconnect" /\ Did(last, "close") /\ last.raised = "none"
        /\ last'.op = "fetch" /\ last'.inst = last.inst /\ ncalls' = ncalls + 1)
          => /\ ~instances[last.inst].is_connected
             /\ \A n \in DOMAIN last'.events : last'.events[n].op \notin MailOps]_vars

\* C8: disconnect() does nothing on a session that never connected, and a
\* disconnect() that follows a disconnect() of the same session issues no
\* close and raises nothing.
C8_RepeatedDisconnectIsSafe ==
    [][(last'.op = "disconnect" /\ ncalls' = ncalls + 1)
          => /\ ~instances'[last'.inst].is_connected =>
                    (last'.events = <<>> /\ last'.raised = "none")
             /\ (last.op = "disconnect" /\ last.inst = last'.inst) =>
                    (~Did(last', "close") /\ last'.raised = "none")]_vars

---------------------------------------------------------------------------
(* Claims about extraction and the paths of the pipeline (SpecPipeline) *)

\* the configured output directory, as the caller names it at the start
Outdir == AbsPath(StartDir, defaults.outdir)

\* link i of the call is a marker link that serves a valid zip archive
ServesZip(call, i) ==
    HasMarker(call.input[i]) /\ call.input[i].serves \in {"zip", "zip_ro"}

\* no other link of the call resolves to the file name of link i, so the
\* files of that name after the call are those link i left
SoleName(call, i) ==
    \A j \in DOMAIN call.input :
        (j # i /\ HasMarker(call.input[j])) => call.input[j].name # call.input[i].name

\* C11: for a downloaded file that is a valid zip archive, with unzip true,
\* the entries of the archive are present under the output directory after
\* the pipeline step, and the archive no longer exists if keep_archive is
\* false and still exists if it is true; and an archive is removed only when
\* keep_archive is false and its extraction succeeded.
C11_ArchiveExtractedAndFateFollowsKeepArchive ==
    last.op = "download_archives" =>
        /\ \A i \in DOMAIN last.input :
               (ServesZip(last, i) /\ Occurs(last, "download", i) /\ defaults.unzip
                /\ SoleName(last, i)) =>
                   /\ (Outdir \o ZipEntry(last.input[i].name)) \in DOMAIN files
                   /\ (Outdir \o <<last.input[i].name>> \in DOMAIN files) <=> defaults.keep_archive
        /\ \A i \in DOMAIN last.input :
               Occurs(last, "unlink", i) =>
                   (~defaults.keep_archive /\ defaults.unzip /\ Occurs(last, "extractall", i))

\* C11, the last sentence on its own: an archive is removed only when
\* keep_archive is false, unzip is true and the extraction of that archive
\* succeeded.
C11_RemovedOnlyAfterExtraction ==
    last.op = "download_archives" =>
        \A i \in DOMAIN last.input :
            Occurs(last, "unlink", i) =>
                (~defaults.keep_archive /\ defaults.unzip /\ Occurs(last, "extractall", i))

---------------------------------------------------------------------------
(* Link extraction on its own: a caller hands one parsed message to         *)
(* get_wetransfer_links and receives the list it returns.                   *)

\* the most parts a multi-part message has, and the most tags of class
\* download_link_link of either kind in a body
MaxParts == 2
MaxTags == 2

\* the link strings that occur in the bodies
BodyLinks == {NoiseLink, TransferLink("a", "zip"), TransferLink("b", "zip")}

\* the bodies of a message that is not multi-part: every list of span texts
\* and every list of anchors, an anchor being <<>> when it has no href
Bodies ==
    { HtmlBody(spans, anchors) :
        spans \in SeqsUpTo(BodyLinks, MaxTags),
        anchors \in SeqsUpTo({<<>>} \cup { <<l>> : l \in BodyLinks }, MaxTags) }

\* the parts of a multi-part message
Parts ==
    { Part(ctype, attachment, payload) :
        ctype \in {"text/plain", "text/html"},
        attachment \in BOOLEAN,
        payload \in {<<>>, <<TemplateBody(<<TransferLink("a", "zip")>>)>>,
                     <<TemplateBody(<<TransferLink("b", "zip")>>)>>} }

\* the messages the parser can hand over; a multi-part one has a part
ExtractMessages ==
    {SinglePart(<<>>)}
    \cup { SinglePart(<<b>>) : b \in Bodies }
    \cup { Multipart(parts) : parts \in SeqsUpTo(Parts, MaxParts) \ {<<>>} }

\* links = instances[i].get_wetransfer_links(message): the caller holds the
\* message in `pending` before the call and the returned list after it
CallGetLinks(i) ==
    /\ last = NoCall
    /\ pending # <<>>
    /\ i \in DOMAIN instances
    /\ LET message == pending[1]
           g == get_wetransfer_links(message)
           st == Running(cwd, dirs, files, inbox)
       IN  IF g.raised # "none"
           THEN /\ last' = Call("get_wetransfer_links", i, <<message>>, <<>>,
                                Raise(st, g.raised))
                /\ pending' = <<>>
           ELSE \E links \in g.lists :
                /\ last' = Call("get_wetransfer_links", i, <<message>>, <<>>,
                                Emit(st, Ev(IF g.unparsed THEN "log_unable_to_parse"
                                            ELSE "log_found", Len(links), <<>>)))
                /\ pending' = <<links>>
    /\ ncalls' = ncalls + 1
    /\ UNCHANGED <<defaults, instances, inbox, cwd, dirs, files>>

InitExtract ==
    /\ defaults = Defaults
    /\ instances = <<Instance(FALSE, "none", MkArg(<<>>, <<>>, <<>>, <<>>, <<>>, <<>>, <<>>))>>
    /\ inbox = <<>>
    /\ cwd = StartDir
    /\ dirs = Prefixes(StartDir)
    /\ files = NoFiles
    /\ pending \in { <<m>> : m \in ExtractMessages }
    /\ last = NoCall
    /\ ncalls = 0

NextExtract == CallGetLinks(1)

SpecExtract == InitExtract /\ [][NextExtract]_vars

---------------------------------------------------------------------------
(* Claims about link extraction (checked under SpecExtract) *)

\* the message the last call of get_wetransfer_links was given
Given == last.input[1]

\* the parts of a multi-part message that are text/html
HtmlParts(message) ==
    { i \in DOMAIN message.parts : message.parts[i].ctype = "text/html" }

\* no body bytes can be obtained from the message: it is not multi-part and
\* has no payload, or it is multi-part and has no text/html part, or its
\* first text/html part has no payload
NoBodyBytes(message) ==
    IF ~message.multipart THEN message.payload = <<>>
    ELSE \/ HtmlParts(message) = {}
         \/ \E i \in HtmlParts(message) :
                /\ \A j \in HtmlParts(message) : i <= j
                /\ message.parts[i].payload = <<>>

\* C12: for every message from which no body bytes can be obtained (a
\* multi-part message with no text/html part, a message with no payload),
\* get_wetransfer_links returns an empty list and raises nothing.
C12_NoBodyReturnsEmptyWithoutRaising ==
    (last.op = "get_wetransfer_links" /\ NoBodyBytes(Given)) =>
        /\ last.raised = "none"
        /\ pending = << <<>> >>

\* C12, for the messages whose body the code does bind: a message that is
\* not multi-part and has no payload, or whose first text/html part has no
\* payload, yields an empty list, a diagnostic, and no exception.
C12_EmptyPayloadReturnsEmpty ==
    (last.op = "get_wetransfer_links" /\ NoBodyBytes(Given)
     /\ (Given.multipart => HtmlParts(Given) # {})) =>
        /\ last.raised = "none"
        /\ pending = << <<>> >>
        /\ Did(last, "log_unable_to_parse")

---------------------------------------------------------------------------
(* Claims about the configuration and the automatic start (under Spec) *)

\* the effective configuration of an object: self.config is the module-level
\* dict itself (line 101), for every object
ConfigOf(i) == defaults

\* C13: the effective configuration of every MailFetcher equals the original
\* defaults overlaid with the values that were supplied to that instance,
\* and stays so: no later construction changes it, and no value supplied to
\* another instance shows up in it.
C13_ConfigIsDefaultsPlusOwnValues ==
    \A i \in DOMAIN instances : ConfigOf(i) = Update(Defaults, instances[i].supplied)

\* how many times the call did `op`
Count(call, op) == Cardinality({ n \in DOMAIN call.events : call.events[n].op = op })

\* the dict the last construction was given enables autostart
EnablesAutostart(arg) == ~Missing(arg, "autostart") /\ arg.autostart

\* the last construction's connect() succeeded
ConnectSucceeded(call) == Did(call, "log_logged_in")

\* select and search happen once at most, and after the login
DrainOnceAfterConnect(call) ==
    /\ Count(call, "select") <= 1
    /\ Count(call, "search") <= 1
    /\ \A n, m \in DOMAIN call.events :
           (call.events[n].op \in MailOps /\ call.events[m].op = "log_logged_in") => m < n

\* C14: a construction performs the automatic drain cycle (select, search,
\* message processing) if and only if the instance's own configuration
\* enables autostart and connect() succeeded; the cycle runs once, after the
\* connect; an instance that did not enable autostart performs no select or
\* search while it is constructed.
C14_AutostartDrainIffEnabledAndConnected ==
    (last.op = "construct" /\ last.arg # <<>>) =>
        /\ Did(last, "select") <=> (EnablesAutostart(last.arg[1]) /\ ConnectSucceeded(last))
        /\ DrainOnceAfterConnect(last)
        /\ ~EnablesAutostart(last.arg[1]) => (~Did(last, "select") /\ ~Did(last, "search"))

\* C14, read on the dict the object shares: the drain cycle runs during a
\* construction if and only if the shared configuration has autostart set
\* after the update and connect() succeeded, once and after the connect.
C14_DrainFollowsSharedAutostart ==
    (last.op = "construct" /\ last.arg # <<>>) =>
        /\ Did(last, "select") <=> (defaults.autostart /\ ConnectSucceeded(last))
        /\ DrainOnceAfterConnect(last)

---------------------------------------------------------------------------
(* Claims about the links returned (checked under SpecExtract) *)

\* the message has a single HTML body: it is not multi-part and has a
\* payload, or exactly one of its parts is text/html, inline, with a payload
SingleHtmlBody(message) ==
    IF ~message.multipart THEN message.payload # <<>>
    ELSE /\ Cardinality(HtmlParts(message)) = 1
         /\ \A i \in HtmlParts(message) :
                ~message.parts[i].attachment /\ message.parts[i].payload # <<>>

\* that body
TheHtmlBody(message) ==
    IF ~message.multipart THEN message.payload[1]
    ELSE message.parts[CHOOSE i \in HtmlParts(message) : TRUE].payload[1]

\* the texts of the spans of class download_link_link of a body
SpanTexts(body) == { body.spans[n] : n \in DOMAIN body.spans }

\* the hrefs of the anchors of class download_link_link that have one
AnchorHrefs(body) ==
    { body.anchors[n][1] : n \in { m \in DOMAIN body.anchors : body.anchors[m] # <<>> } }

\* the list returned to the caller by the last call
Returned == pending[1]

\* C15: for a message with a single HTML body, get_wetransfer_links returns
\* each distinct candidate string exactly once, and the strings returned are
\* the union of the span texts and the anchor hrefs; so a link that occurs
\* both as span text and as anchor href is returned exactly once.
C15_ResultIsUnionWithoutRepeats ==
    (last.op = "get_wetransfer_links" /\ SingleHtmlBody(Given)) =>
        /\ last.raised = "none"
        /\ pending # <<>>
        /\ Range(Returned) = SpanTexts(TheHtmlBody(Given)) \cup AnchorHrefs(TheHtmlBody(Given))
        /\ \A n, m \in DOMAIN Returned : Returned[n] = Returned[m] => n = m

\* a link occurs both as span text and as anchor href of a body that also
\* holds another link and an anchor without href, and two links came back
C15_Witness ==
    /\ last.op = "get_wetransfer_links"
    /\ SingleHtmlBody(Given)
    /\ SpanTexts(TheHtmlBody(Given)) \cap AnchorHrefs(TheHtmlBody(Given)) # {}
    /\ \E n \in DOMAIN TheHtmlBody(Given).anchors : TheHtmlBody(Given).anchors[n] = <<>>
    /\ pending # <<>>
    /\ Len(Returned) = 2

---------------------------------------------------------------------------
(* Claims about the order of the pipeline's steps (SpecPipeline) *)

\* link i of the call is a marker link whose download leaves a file
ServesFile(call, i) ==
    HasMarker(call.input[i]) /\ call.input[i].serves \in {"zip", "zip_ro", "notzip"}

\* C16: in download_archives, extraction is invoked for a link if and only
\* if unzip is set and the file of that link was found by the existence
\* check; it is invoked before the resolution and download of any later link
\* start; no extraction is attempted for a link whose file is absent or when
\* unzip is false; and with unzip false and keep_archive true, one valid link
\* leaves exactly the downloaded file in the output directory.
C16_ExtractionIffUnzipAndFilePresent ==
    last.op = "download_archives" =>
        /\ \A i \in DOMAIN last.input :
               Occurs(last, "zip_open", i) <=> (defaults.unzip /\ Occurs(last, "isfile_yes", i))
        /\ \A i \in DOMAIN last.input :
               Occurs(last, "isfile_no", i) => ~Occurs(last, "zip_open", i)
        /\ \A n, m \in DOMAIN last.events :
               (last.events[n].op = "zip_open"
                /\ last.events[m].op \in {"resolve", "download"}
                /\ last.events[m].idx > last.events[n].idx) => n < m
        /\ (~defaults.unzip /\ defaults.keep_archive /\ Len(last.input) = 1
            /\ ServesFile(last, 1)) =>
               /\ DOMAIN files = {Outdir \o <<last.input[1].name>>}
               /\ \A n \in DOMAIN last.events :
                      last.events[n].op \notin {"zip_open", "extractall", "unlink", "unlink_failed"}

\* a call with unzip set has extracted the archive of its first link, then
\* downloaded for its second link a file that was absent at the check
C16_Witness ==
    /\ last.op = "download_archives"
    /\ defaults.unzip
    /\ Occurs(last, "extractall", 1)
    /\ Occurs(last, "download", 2)
    /\ Occurs(last, "isfile_no", 2)
    /\ last.raised = "none"

---------------------------------------------------------------------------
(* Claims about the order of a drain cycle (checked under SpecFetch) *)

\* the identifiers of the messages the call fetched, in the order it did
FetchedIds(call) ==
    LET fetches == SelectSeq(call.events, LAMBDA e : e.op = "fetch")
    IN  [n \in DOMAIN fetches |-> fetches[n].idx]

\* q is an initial part of r
IsPrefix(q, r) == Len(q) <= Len(r) /\ \A n \in DOMAIN q : q[n] = r[n]

\* every message fetched before the last one had its links extracted and
\* its pipeline run before the next message was fetched: between two
\* fetches lies exactly one call of download_archives
PipelineBetweenFetches(call) ==
    \A n, m \in DOMAIN call.events :
        (n < m /\ call.events[n].op = "fetch" /\ call.events[m].op = "fetch"
         /\ \A k \in (n + 1)..(m - 1) : call.events[k].op # "fetch") =>
            Cardinality({ k \in (n + 1)..(m - 1) : call.events[k].op = "download_archives" }) = 1

\* the step is a drain cycle: a fetch() on a connected session, called by
\* the caller or by the constructor
DrainStep ==
    /\ ncalls' = ncalls + 1
    /\ last'.op \in {"fetch", "construct"}
    /\ Did(last', "select")

\* C17: one fetch() on a connected session issues exactly one unread search
\* and processes the identifiers it returned in that order, each exactly
\* once, the pipeline of a message being finished before the next message
\* is fetched; a message already read at the search is not fetched.
C17_EverySearchedMessageOnceInOrder ==
    [][DrainStep =>
          /\ Count(last', "search") = 1
          /\ FetchedIds(last') = Unseen(inbox)
          /\ PipelineBetweenFetches(last')]_vars

\* C17 without completeness: one search; the messages fetched are an initial
\* part of the search result, in its order, none twice and none that was
\* read; each pipeline is finished before the next fetch; and the whole
\* result is processed when the call raises nothing.
C17_FetchedIsPrefixOfSearchResult ==
    [][DrainStep =>
          /\ Count(last', "search") <= 1
          /\ (last'.raised = "none" \/ Did(last', "search")) => Count(last', "search") = 1
          /\ IsPrefix(FetchedIds(last'), Unseen(inbox))
          /\ PipelineBetweenFetches(last')
          /\ last'.raised = "none" => FetchedIds(last') = Unseen(inbox)]_vars

\* the parts of a multi-part message that are text/html and no attachment
InlineHtmlParts(message) ==
    { i \in HtmlParts(message) : ~message.parts[i].attachment }

\* the payload C18 names as the body: that of the first inline text/html
\* part, and the message's own payload when there is none or the message is
\* not multi-part
BodyByDisposition(message) ==
    IF message.multipart /\ InlineHtmlParts(message) # {}
    THEN message.parts[CHOOSE i \in InlineHtmlParts(message) :
                           \A j \in InlineHtmlParts(message) : i <= j].payload
    ELSE message.payload

\* the call returned what a scan of the payload `body` yields
ScannedBody(body) ==
    /\ last.raised = "none"
    /\ pending # <<>>
    /\ IF body = <<>> THEN Returned = <<>>
       ELSE Range(Returned) = SpanTexts(body[1]) \cup AnchorHrefs(body[1])

\* C18: for a multi-part message the body scanned is the payload of the
\* first part that is text/html and not an attachment; a text/html
\* attachment is never selected; when no part qualifies, or the message is
\* not multi-part, the message's own decoded payload is scanned.
C18_BodyIsFirstInlineHtmlPart ==
    last.op = "get_wetransfer_links" => ScannedBody(BodyByDisposition(Given))

\* C18, for the messages without a text/html attachment and with a body the
\* code binds: the payload of the first text/html part is scanned, and the
\* own payload of a message that is not multi-part.
C18_BodyIsFirstHtmlPart ==
    (last.op = "get_wetransfer_links"
     /\ (Given.multipart => (HtmlParts(Given) # {} /\ HtmlParts(Given) = InlineHtmlParts(Given)))) =>
        ScannedBody(BodyByDisposition(Given))

---------------------------------------------------------------------------
(* Claims about the paths of the pipeline (checked under SpecPipeline) *)

\* the directory created is the output directory, and for every link the
\* file written by the backend, the path checked and the path opened for
\* extraction are the file of that link's name directly inside it
PathsAgree(call) ==
    \A n \in DOMAIN call.events :
        LET e == call.events[n]
        IN  /\ e.op \in DirOps => e.path = Outdir
            /\ (e.op \in {"download", "isfile_yes", "isfile_no", "zip_open"} /\ e.path # <<>>) =>
                   e.path = Outdir \o <<call.input[e.idx].name>>

\* C19: for every outdir, absolute or relative, the directory created by
\* download_archives, the place the backend writes the file, the path whose
\* existence is checked and the path opened for extraction denote the same
\* file, file_name directly inside the configured output directory.
C19_AllPathsDenoteFileInOutdir ==
    last.op = "download_archives" => PathsAgree(last)

\* C19, for an absolute outdir only.
C19_AbsoluteOutdirPathsAgree ==
    (last.op = "download_archives" /\ defaults.outdir.abs) => PathsAgree(last)

\* C20: with keep_archive false, when the extraction of the archive of link
\* i succeeded and the deletion of the archive fails, the failure is logged
\* and not raised: nothing is raised while handling link i, the extracted
\* entries remain, and the call goes on to the next link.
C20_DeletionFailureIsContained ==
    last.op = "download_archives" =>
        \A i \in DOMAIN last.input :
            (Occurs(last, "extractall", i) /\ ~defaults.keep_archive
             /\ last.input[i].serves = "zip_ro") =>
                /\ Occurs(last, "unlink_failed", i)
                /\ ~RaisedAt(last, i)
                /\ (Outdir \o ZipEntry(last.input[i].name)) \in DOMAIN files
                /\ (i + 1 \in DOMAIN last.input => Started(last, i + 1))

\* the deletion of the first archive failed after its extraction, and the
\* second link of the call, a marker link, was downloaded and extracted
C20_Witness ==
    /\ last.op = "download_archives"
    /\ ~defaults.keep_archive
    /\ Occurs(last, "extractall", 1)
    /\ Occurs(last, "unlink_failed", 1)
    /\ Len(last.input) >= 2
    /\ HasMarker(last.input[2])
    /\ Occurs(last, "extractall", 2)
    /\ (Outdir \o ZipEntry(last.input[1].name)) \in DOMAIN files

====
